---- MODULE Spec2Model ----
(***************************************************************************)
(* Model of the stat-arb backtester: the trigger -> signal state machine   *)
(* (models.rs), signal consolidation (models.rs), trading costs, win-rate  *)
(* replay and portfolio construction (backtest.rs) and the evaluation      *)
(* metrics (evaluation.rs, utils.rs).                                      *)
(*                                                                         *)
(* f64 values are modelled by integers: every series the model draws holds *)
(* small whole numbers, on which the f64 sums, products and comparisons of *)
(* the code are exact.  Vectors are sequences; the code's 0-based index i  *)
(* is kept and At(v, i) reads v[i].  Option<f64> is <<>> (None) or <<x>>   *)
(* (Some(x)).                                                              *)
(***************************************************************************)
EXTENDS Integers, Sequences, FiniteSets, TLC

\* ---------------------------------------------------------------- bounds
\* Longest input series handed to generate_signals.
MaxSeriesLen == 6
\* Longest input series of the runs over every threshold bundle.
MaxBundleSeriesLen == 2
\* Longest input series of the runs that are compared with every other
\* trigger series of their length.
MaxCompareLen == 4
\* Most streams handed to consolidate_signals, and the longest stream.
MaxStreams == 2
MaxStreamLen == 3
\* Longest signal series of the trade_costs and win_rate_stats runs.
MaxSignalLen == 4
\* Longest signal series of the run_backtest runs.
MaxBacktestLen == 2
\* Longest asset log-return series handed to run_backtest when its length is
\* free of the signal's.
MaxReturnsLen == 2

\* Cost rates, and the per-step log returns handed to win_rate_stats.
CostRates == {0, 1}
Rets == {-1, 0, 1}
\* The log returns of the runs that vary the lengths.
LengthRets == {-1, 1}
\* Capital weights of the two assets ("between 0 and 1.0").
Weights == {0, 1}

\* Values a series element takes.
Vals == {-1, 0, 1}
\* Values a threshold takes in the runs over every threshold bundle.
Thresholds == {0, 1}

\* ---------------------------------------------------------------- helpers
None == <<>>
Some(x) == <<x>>
is_some(o) == Len(o) = 1
unwrap(o) == o[1]

\* v[i] with the code's 0-based index.
At(v, i) == v[i + 1]

\* s[a] + ... + s[b], 0-based.
RECURSIVE SumRange(_, _, _)
SumRange(s, a, b) == IF a > b THEN 0 ELSE At(s, a) + SumRange(s, a + 1, b)

\* All sequences over S of length n, and of length at most n.
SeqsOfLen(S, n) == [1..n -> S]
SeqsUpTo(S, n) == UNION {SeqsOfLen(S, k) : k \in 0..n}

\* ---------------------------------------------------------------- state
VARIABLES
  \* Signals (models.rs): the threshold bundle and direction, the series
  \* given to generate_signals, and the locals of generate_signals.
  params,        \* Signals {eq, neq, gt, lt, signal_type}
  series,        \* the argument `series`
  triggers,      \* let triggers
  factor,        \* let factor
  open_signals,  \* let mut open_signals
  is_open,       \* let mut is_open
  gi,            \* the loop variable i of generate_signals
  gpc            \* position in generate_signals: "idle"/"call"/"loop"/"done"

sigVars == <<params, series, triggers, factor, open_signals, is_open, gi, gpc>>

VARIABLES
  \* Signals::consolidate_signals (models.rs).
  signals_arr,   \* the argument signals_arr, built by the caller
  sigs,          \* let mut sigs, the vector returned
  cpc            \* "idle"/"build"/"done"/"panic"

conVars == <<signals_arr, sigs, cpc>>

VARIABLES
  \* Backtest (backtest.rs): the fields of the struct.
  signals,         \* self.signals
  trading_costs,   \* self.trading_costs, the cost rate
  weight_asset_1,  \* self.weight_asset_1
  weight_asset_2   \* self.weight_asset_2

fieldVars == <<signals, trading_costs, weight_asset_1, weight_asset_2>>

VARIABLES
  \* Backtest::trade_costs: its locals.
  tc,            \* let mut trading_costs (the cost vector)
  ti,            \* the loop variable i
  tpc            \* "idle"/"call"/"loop"/"done"

costVars == <<tc, ti, tpc>>

VARIABLES
  \* Backtest::win_rate_stats: its argument, locals and result.
  log_rets,      \* the argument log_rets
  opened,        \* let mut opened
  closed,        \* let mut closed
  closed_profit, \* let mut closed_profit
  curr_profit,   \* let mut curr_profit
  w_is_open,     \* let mut is_open
  wi,            \* the loop variable i
  win_rate,      \* the WinRate returned (win_rate in hundredths)
  wpc            \* "idle"/"call"/"loop"/"done"

winVars == <<log_rets, opened, closed, closed_profit, curr_profit, w_is_open,
             wi, win_rate, wpc>>

VARIABLES
  \* Backtest::run_backtest: its arguments, locals and result.
  log_rets_1,        \* the argument log_rets_1
  log_rets_2_opt,    \* the argument log_rets_2_opt
  log_returns,       \* let log_returns (Evaluation.log_returns)
  cum_norm_returns,  \* let cum_norm_returns (Evaluation.cum_norm_returns)
  metrics,           \* the Metrics record returned
  co_broadcast,      \* the ndarray the build links: TRUE when its arithmetic
                     \* also broadcasts the left operand
  bpc                \* "idle"/"new"/"ready"/"done"/"panic"

runVars == <<log_rets_1, log_rets_2_opt, log_returns, cum_norm_returns, metrics,
             co_broadcast, bpc>>

vars == <<sigVars, conVars, fieldVars, costVars, winVars, runVars>>

\* What each component leaves alone.
notSignals == <<conVars, fieldVars, costVars, winVars, runVars>>
notConsolidate == <<sigVars, fieldVars, costVars, winVars, runVars>>
notCosts == <<sigVars, conVars, fieldVars, winVars, runVars>>
notWinRate == <<sigVars, conVars, fieldVars, costVars, runVars>>
notRun == <<sigVars, conVars, costVars, winVars>>

\* ------------------------------------------------- Signals::generate_triggers
\* One element of the map in generate_triggers: the match arms in order.
TriggerOfStrict(p, x) ==
  IF is_some(p.eq[1]) /\ x = unwrap(p.eq[1]) THEN 1
  ELSE IF is_some(p.neq[1]) /\ x # unwrap(p.neq[1]) THEN 1
  ELSE IF is_some(p.gt[1]) /\ x > unwrap(p.gt[1]) THEN 1
  ELSE IF is_some(p.lt[1]) /\ x < unwrap(p.lt[1]) THEN 1
  ELSE IF is_some(p.eq[2]) /\ x = unwrap(p.eq[2]) THEN -1
  ELSE IF is_some(p.neq[2]) /\ x # unwrap(p.neq[2]) THEN -1
  ELSE IF is_some(p.gt[2]) /\ x > unwrap(p.gt[2]) THEN -1
  ELSE IF is_some(p.lt[2]) /\ x < unwrap(p.lt[2]) THEN -1
  ELSE 0

TriggerOf(p, x) ==
  IF is_some(p.eq[1]) /\ x = unwrap(p.eq[1]) THEN 1
  ELSE IF is_some(p.neq[1]) /\ x # unwrap(p.neq[1]) THEN 1
  ELSE IF is_some(p.gt[1]) /\ x >= unwrap(p.gt[1]) THEN 1
  ELSE IF is_some(p.lt[1]) /\ x <= unwrap(p.lt[1]) THEN 1
  ELSE IF is_some(p.eq[2]) /\ x = unwrap(p.eq[2]) THEN -1
  ELSE IF is_some(p.neq[2]) /\ x # unwrap(p.neq[2]) THEN -1
  ELSE IF is_some(p.gt[2]) /\ x >= unwrap(p.gt[2]) THEN -1
  ELSE IF is_some(p.lt[2]) /\ x <= unwrap(p.lt[2]) THEN -1
  ELSE 0

GenerateTriggers(p, s) == [k \in 1..Len(s) |-> TriggerOf(p, s[k])]

\* ------------------------------------------------- Signals::generate_signals
SignalFactor(signal_type) == IF signal_type = "Long" THEN 1 ELSE -1

\* The body of the for loop at index i: the new is_open and the value pushed.
GenerateSignalsBodyCurrentTrigger(trig, i, open, f) ==
  LET prev_val == At(trig, i) IN
  IF ~open /\ prev_val = 1 THEN [is_open |-> TRUE, push |-> f]
  ELSE IF open /\ prev_val # -1 THEN [is_open |-> open, push |-> f]
  ELSE [is_open |-> FALSE, push |-> 0]

GenerateSignalsBody(trig, i, open, f) ==
  LET prev_val == At(trig, i - 1) IN
  IF ~open /\ prev_val = 1 THEN [is_open |-> TRUE, push |-> f]
  ELSE IF open /\ prev_val # -1 THEN [is_open |-> open, push |-> f]
  ELSE [is_open |-> FALSE, push |-> 0]

\* Entry: triggers, factor and the seeded vec![0.0].
GenerateSignalsCall ==
  /\ gpc = "call"
  /\ triggers' = GenerateTriggers(params, series)
  /\ factor' = SignalFactor(params.signal_type)
  /\ open_signals' = <<0>>
  /\ is_open' = FALSE
  /\ gi' = 1
  /\ gpc' = "loop"
  /\ UNCHANGED <<params, series>>
  /\ UNCHANGED notSignals

\* One iteration of `for i in 1..triggers.len()`.
GenerateSignalsLoop ==
  /\ gpc = "loop"
  /\ gi < Len(triggers)
  /\ LET r == GenerateSignalsBody(triggers, gi, is_open, factor) IN
       /\ is_open' = r.is_open
       /\ open_signals' = Append(open_signals, r.push)
  /\ gi' = gi + 1
  /\ UNCHANGED <<params, series, triggers, factor, gpc>>
  /\ UNCHANGED notSignals

\* The range is exhausted: open_signals is returned.
GenerateSignalsReturn ==
  /\ gpc = "loop"
  /\ gi >= Len(triggers)
  /\ gpc' = "done"
  /\ UNCHANGED <<params, series, triggers, factor, open_signals, is_open, gi>>
  /\ UNCHANGED notSignals

\* The loop of generate_signals from index i on, and the whole of it after
\* generate_triggers: the signal series of a trigger series.
RECURSIVE GenerateSignalsFrom(_, _, _, _, _)
GenerateSignalsFrom(trig, f, i, open, acc) ==
  IF i >= Len(trig) THEN acc
  ELSE LET r == GenerateSignalsBody(trig, i, open, f) IN
    GenerateSignalsFrom(trig, f, i + 1, r.is_open, Append(acc, r.push))

GenerateSignalsOn(trig, f) == GenerateSignalsFrom(trig, f, 1, FALSE, <<0>>)

\* Threshold bundles the signal specification draws from: the bundle whose
\* triggers equal the series (eq = (1, -1)), and gt/lt bundles as in the
\* repository's test.
NoPair == <<None, None>>
SignalBundles ==
  [eq : {NoPair, <<Some(1), Some(-1)>>},
   neq : {NoPair},
   gt : {NoPair, <<Some(1), None>>},
   lt : {NoPair, <<None, Some(-1)>>},
   signal_type : {"Long", "Short"}]

\* Every bundle Signals::new accepts: each of the eight thresholds unset or
\* set.
ThresholdPairs ==
  LET opt == {None} \cup {Some(t) : t \in Thresholds} IN opt \X opt

AllBundles ==
  [eq : ThresholdPairs, neq : ThresholdPairs, gt : ThresholdPairs,
   lt : ThresholdPairs, signal_type : {"Long"}]

\* ---------------------------------------------- Signals::consolidate_signals
\* The inner loop `for i in 0..signals_arr.len()` at position inner_i, from
\* stream i on: the value pushed, or a panic on an index out of bounds.
RECURSIVE ConsolidateScanLastWins(_, _, _)
ConsolidateScanLastWins(arr, inner_i, i) ==
  LET j == Len(arr) - 1 - i IN
  IF inner_i >= Len(At(arr, j)) THEN [panic |-> TRUE, push |-> 0]
  ELSE LET val == At(At(arr, j), inner_i) IN
    IF val = 1 THEN [panic |-> FALSE, push |-> 1]
    ELSE IF val = -1 THEN [panic |-> FALSE, push |-> -1]
    ELSE IF i + 1 = Len(arr) THEN [panic |-> FALSE, push |-> 0]
    ELSE ConsolidateScanLastWins(arr, inner_i, i + 1)

ConsolidateScanFirstStreamOnly(arr, inner_i, i) ==
  IF inner_i >= Len(At(arr, i)) THEN [panic |-> TRUE, push |-> 0]
  ELSE LET val == At(At(arr, i), inner_i) IN
    IF val = 1 THEN [panic |-> FALSE, push |-> 1]
    ELSE IF val = -1 THEN [panic |-> FALSE, push |-> -1]
    ELSE [panic |-> FALSE, push |-> 0]

RECURSIVE ConsolidateScan(_, _, _)
ConsolidateScan(arr, inner_i, i) ==
  IF inner_i >= Len(At(arr, i)) THEN [panic |-> TRUE, push |-> 0]
  ELSE LET val == At(At(arr, i), inner_i) IN
    IF val = 1 THEN [panic |-> FALSE, push |-> 1]
    ELSE IF val = -1 THEN [panic |-> FALSE, push |-> -1]
    ELSE IF i + 1 = Len(arr) THEN [panic |-> FALSE, push |-> 0]
    ELSE ConsolidateScan(arr, inner_i, i + 1)

\* The outer loop `for inner_i in 0..inner_len`, from inner_i on.
RECURSIVE ConsolidateLoop(_, _, _, _)
ConsolidateLoop(arr, inner_len, inner_i, acc) ==
  IF inner_i >= inner_len THEN [panic |-> FALSE, sigs |-> acc]
  ELSE LET r == ConsolidateScan(arr, inner_i, 0) IN
    IF r.panic THEN [panic |-> TRUE, sigs |-> acc]
    ELSE ConsolidateLoop(arr, inner_len, inner_i + 1, Append(acc, r.push))

\* The whole function; signals_arr[0] panics on an empty list.
ConsolidateSignals(arr) ==
  IF Len(arr) = 0 THEN [panic |-> TRUE, sigs |-> <<>>]
  ELSE ConsolidateLoop(arr, Len(At(arr, 0)), 0, <<>>)

\* The caller builds the list of streams (vec![long_signals, short_signals]).
PushStream ==
  /\ cpc = "build"
  /\ Len(signals_arr) < MaxStreams
  /\ \E s \in SeqsUpTo(Vals, MaxStreamLen) : signals_arr' = Append(signals_arr, s)
  /\ UNCHANGED <<sigs, cpc>>
  /\ UNCHANGED notConsolidate

ConsolidateSignalsCall ==
  /\ cpc = "build"
  /\ LET r == ConsolidateSignals(signals_arr) IN
       /\ sigs' = r.sigs
       /\ cpc' = IF r.panic THEN "panic" ELSE "done"
  /\ UNCHANGED signals_arr
  /\ UNCHANGED notConsolidate

\* ------------------------------------------------------ utils::round_float
\* num / den rounded to the nearest integer, halves away from zero (f64::round).
RoundDiv(num, den) ==
  LET mag == IF num >= 0 THEN num ELSE -num
      up == IF 2 * (mag % den) >= den THEN 1 ELSE 0
      r == (mag \div den) + up IN
  IF num >= 0 THEN r ELSE -r

\* ---------------------------------------------------- Backtest::trade_costs
Zeros(n) == [k \in 1..n |-> 0]

\* The body of the for loop at index i: the cost vector after the writes.
TradeCostsBodyAccumulate(sig, rate, costs, i) ==
  LET val == At(sig, i)
      prev_val == At(sig, i - 1) IN
  IF val = 0 /\ prev_val # 0
    THEN [costs EXCEPT ![i] = @ - rate]
  ELSE IF val # 0 /\ prev_val = 0
    THEN [costs EXCEPT ![i + 1] = @ - rate]
  ELSE IF val # 0 /\ prev_val # 0 /\ val # prev_val
    THEN [costs EXCEPT ![i] = @ - rate, ![i + 1] = @ - rate]
  ELSE costs

TradeCostsBody(sig, rate, costs, i) ==
  LET val == At(sig, i)
      prev_val == At(sig, i - 1) IN
  IF val = 0 /\ prev_val # 0
    THEN [costs EXCEPT ![i] = -rate]
  ELSE IF val # 0 /\ prev_val = 0
    THEN [costs EXCEPT ![i + 1] = -rate]
  ELSE IF val # 0 /\ prev_val # 0 /\ val # prev_val
    THEN [costs EXCEPT ![i] = -rate, ![i + 1] = -rate]
  ELSE costs

\* `for i in 1..self.signals.len()` from i on, and the whole function.
RECURSIVE TradeCostsFrom(_, _, _, _)
TradeCostsFrom(sig, rate, costs, i) ==
  IF i >= Len(sig) THEN costs
  ELSE TradeCostsFrom(sig, rate, TradeCostsBody(sig, rate, costs, i), i + 1)

TradeCosts(sig, rate) == TradeCostsFrom(sig, rate, Zeros(Len(sig)), 1)

TradeCostsCall ==
  /\ tpc = "call"
  /\ tc' = Zeros(Len(signals))
  /\ ti' = 1
  /\ tpc' = "loop"
  /\ UNCHANGED notCosts

TradeCostsLoop ==
  /\ tpc = "loop"
  /\ ti < Len(signals)
  /\ tc' = TradeCostsBody(signals, trading_costs, tc, ti)
  /\ ti' = ti + 1
  /\ UNCHANGED tpc
  /\ UNCHANGED notCosts

TradeCostsReturn ==
  /\ tpc = "loop"
  /\ ti >= Len(signals)
  /\ tpc' = "done"
  /\ UNCHANGED <<tc, ti>>
  /\ UNCHANGED notCosts

\* ------------------------------------------------- Backtest::win_rate_stats
\* The body of the for loop at index i, on the record of the mutable locals.
\* The loop body with an opening step that leaves log_rets[i] out.
WinRateBodyOpenSkipsReturn(sig, lr, st, i) ==
  LET val == At(sig, i)
      prev_val == At(sig, i - 1) IN
  IF val = 0 /\ prev_val # 0 THEN
    [st EXCEPT !.is_open = FALSE,
               !.closed = @ + 1,
               !.closed_profit = IF st.curr_profit > 0 THEN @ + 1 ELSE @,
               !.curr_profit = 0]
  ELSE IF val # 0 /\ prev_val = 0 THEN
    [st EXCEPT !.is_open = TRUE,
               !.opened = @ + 1]
  ELSE IF val # 0 /\ prev_val # 0 /\ val # prev_val THEN
    [st EXCEPT !.closed = @ + 1,
               !.closed_profit = IF st.curr_profit > 0 THEN @ + 1 ELSE @,
               !.curr_profit = @ + At(lr, i),
               !.is_open = TRUE,
               !.opened = @ + 1]
  ELSE IF st.is_open THEN
    [st EXCEPT !.curr_profit = @ + At(lr, i)]
  ELSE st

\* The loop body with a reversal that counts the close but not the open.
WinRateBodyReversalNoOpen(sig, lr, st, i) ==
  LET val == At(sig, i)
      prev_val == At(sig, i - 1) IN
  IF val = 0 /\ prev_val # 0 THEN
    [st EXCEPT !.is_open = FALSE,
               !.closed = @ + 1,
               !.closed_profit = IF st.curr_profit > 0 THEN @ + 1 ELSE @,
               !.curr_profit = 0]
  ELSE IF val # 0 /\ prev_val = 0 THEN
    [st EXCEPT !.is_open = TRUE,
               !.opened = @ + 1,
               !.curr_profit = @ + At(lr, i)]
  ELSE IF val # 0 /\ prev_val # 0 /\ val # prev_val THEN
    [st EXCEPT !.closed = @ + 1,
               !.closed_profit = IF st.curr_profit > 0 THEN @ + 1 ELSE @,
               !.curr_profit = @ + At(lr, i),
               !.is_open = TRUE]
  ELSE IF st.is_open THEN
    [st EXCEPT !.curr_profit = @ + At(lr, i)]
  ELSE st

WinRateBody(sig, lr, st, i) ==
  LET val == At(sig, i)
      prev_val == At(sig, i - 1) IN
  IF val = 0 /\ prev_val # 0 THEN
    [st EXCEPT !.is_open = FALSE,
               !.closed = @ + 1,
               !.closed_profit = IF st.curr_profit > 0 THEN @ + 1 ELSE @,
               !.curr_profit = 0]
  ELSE IF val # 0 /\ prev_val = 0 THEN
    [st EXCEPT !.is_open = TRUE,
               !.opened = @ + 1,
               !.curr_profit = @ + At(lr, i)]
  ELSE IF val # 0 /\ prev_val # 0 /\ val # prev_val THEN
    [st EXCEPT !.closed = @ + 1,
               !.closed_profit = IF st.curr_profit > 0 THEN @ + 1 ELSE @,
               !.curr_profit = @ + At(lr, i),
               !.is_open = TRUE,
               !.opened = @ + 1]
  ELSE IF st.is_open THEN
    [st EXCEPT !.curr_profit = @ + At(lr, i)]
  ELSE st

WinRateStart ==
  [opened |-> 0, closed |-> 0, closed_profit |-> 0, curr_profit |-> 0,
   is_open |-> FALSE]

\* After the loop: the WinRate record, win_rate rounded to 2 decimals and
\* held in hundredths.
WinRateResult(st) ==
  LET rate100 == IF st.closed_profit > 0 /\ st.closed > 0
                   THEN RoundDiv(100 * st.closed_profit, st.closed)
                   ELSE 0 IN
  [win_rate |-> rate100, opened |-> st.opened, closed |-> st.closed,
   closed_profit |-> st.closed_profit]

RECURSIVE WinRateFrom(_, _, _, _)
WinRateFrom(sig, lr, st, i) ==
  IF i >= Len(sig) THEN st
  ELSE WinRateFrom(sig, lr, WinRateBody(sig, lr, st, i), i + 1)

WinRateStats(sig, lr) == WinRateResult(WinRateFrom(sig, lr, WinRateStart, 1))

WinRateLocals ==
  [opened |-> opened, closed |-> closed, closed_profit |-> closed_profit,
   curr_profit |-> curr_profit, is_open |-> w_is_open]

NoWinRate == [win_rate |-> 0, opened |-> 0, closed |-> 0, closed_profit |-> 0]

WinRateStatsCall ==
  /\ wpc = "call"
  /\ opened' = WinRateStart.opened
  /\ closed' = WinRateStart.closed
  /\ closed_profit' = WinRateStart.closed_profit
  /\ curr_profit' = WinRateStart.curr_profit
  /\ w_is_open' = WinRateStart.is_open
  /\ wi' = 1
  /\ wpc' = "loop"
  /\ UNCHANGED <<log_rets, win_rate>>
  /\ UNCHANGED notWinRate

WinRateStatsLoop ==
  /\ wpc = "loop"
  /\ wi < Len(signals)
  /\ LET st == WinRateBody(signals, log_rets, WinRateLocals, wi) IN
       /\ opened' = st.opened
       /\ closed' = st.closed
       /\ closed_profit' = st.closed_profit
       /\ curr_profit' = st.curr_profit
       /\ w_is_open' = st.is_open
  /\ wi' = wi + 1
  /\ UNCHANGED <<log_rets, win_rate, wpc>>
  /\ UNCHANGED notWinRate

WinRateStatsReturn ==
  /\ wpc = "loop"
  /\ wi >= Len(signals)
  /\ win_rate' = WinRateResult(WinRateLocals)
  /\ wpc' = "done"
  /\ UNCHANGED <<log_rets, opened, closed, closed_profit, curr_profit, w_is_open, wi>>
  /\ UNCHANGED notWinRate

\* ------------------------------------------------------------ f64 helpers
\* f64::NAN, the seed of the max_drawdown fold: a value no computation of the
\* model produces otherwise.
NaN == 2000000000

\* f64::min, which returns the other operand when one is NaN.
F64Min(a, b) == IF a = NaN THEN b ELSE IF b = NaN THEN a ELSE IF a < b THEN a ELSE b

\* round_float on a value held in units u, to the coarser units den * u.
RoundFloat(v, den) == IF v = NaN THEN NaN ELSE RoundDiv(v, den)

\* f64::exp(p / q) - 1.0 in units of 1e-6, correctly rounded, for q in 1..3
\* and p in -12..6: row q holds p = -12, -11, ..., 6.  On every series of
\* the model the values rounded from this table equal the f64 results.
ExpM1Rows ==
  << <<-999994, -999983, -999955, -999877, -999665, -999088, -997521, -993262,
       -981684, -950213, -864665, -632121, 0, 1718282, 6389056, 19085537,
       53598150, 147413159, 402428793>>,
     <<-997521, -995913, -993262, -988891, -981684, -969803, -950213, -917915,
       -864665, -776870, -632121, -393469, 0, 648721, 1718282, 3481689,
       6389056, 11182494, 19085537>>,
     <<-981684, -974438, -964326, -950213, -930517, -903028, -864665, -811124,
       -736403, -632121, -486583, -283469, 0, 395612, 947734, 1718282,
       2793668, 4294490, 6389056>> >>

ExpM1(p, q) == ExpM1Rows[q][p + 13]

\* The largest r with r * r <= n, by bisection on lo..hi (lo * lo <= n).
RECURSIVE ISqrtIn(_, _, _)
ISqrtIn(n, lo, hi) ==
  IF lo >= hi THEN lo
  ELSE LET mid == (lo + hi + 1) \div 2 IN
       IF mid * mid <= n THEN ISqrtIn(n, mid, hi) ELSE ISqrtIn(n, lo, mid - 1)

ISqrt(n) == ISqrtIn(n, 0, IF n < 46340 THEN n ELSE 46340)

\* A ratio s * sqrt(a / b) (b > 0) rounded to 2 decimals, in hundredths:
\* the largest k with (2k - 1)^2 <= 40000 s^2 a / b, signed as s.  A NaN
\* ratio has s = NaN.
RoundRatio(x) ==
  IF x.s = NaN THEN NaN
  ELSE LET k == (ISqrt((40000 * x.s * x.s * x.a) \div x.b) + 1) \div 2 IN
       IF x.s >= 0 THEN k ELSE -k

Sum(v) == SumRange(v, 0, Len(v) - 1)

\* ------------------------------------------------------------------ utils
\* normalise_returns: exp(x) - 1 of each element, in units of 1e-6.
NormaliseReturns(lr) == [k \in 1..Len(lr) |-> ExpM1(lr[k], 1)]

\* cumulative_returns: the running sum.
CumulativeReturns(lr) == [k \in 1..Len(lr) |-> SumRange(lr, 0, k - 1)]

\* ------------------------------------------------------------- Evaluation
\* drawdowns: the loop from position k (1-based) with the running maximum m.
RECURSIVE DrawdownsFrom(_, _, _, _)
DrawdownsFrom(norm, k, m, acc) ==
  IF k > Len(norm) THEN acc
  ELSE LET r == norm[k]
           max_return_so_far == IF r > m THEN r ELSE m IN
       DrawdownsFrom(norm, k + 1, max_return_so_far,
                     Append(acc, -(max_return_so_far - r)))

\* drawdowns with the running maximum seeded by 0.0 instead of norm_returns[0].
DrawdownsSeedZero(lr) ==
  [panic |-> FALSE, val |-> DrawdownsFrom(NormaliseReturns(lr), 1, 0, <<>>)]

\* norm_returns[0] panics on an empty series.
Drawdowns(lr) ==
  LET norm_returns == NormaliseReturns(lr) IN
  IF Len(norm_returns) = 0 THEN [panic |-> TRUE, val |-> <<>>]
  ELSE [panic |-> FALSE,
        val |-> DrawdownsFrom(norm_returns, 1, At(norm_returns, 0), <<>>)]

\* mean_return: exp(mean of the nonzero log returns) - 1, in units of 1e-6.
MeanReturn(lr) ==
  LET filtered_vec == SelectSeq(lr, LAMBDA x : x # 0)
      sum == Sum(filtered_vec)
      count == Len(filtered_vec) IN
  IF count = 0 THEN ExpM1(0, 1) ELSE ExpM1(sum, count)

SumSquares(v) == Sum([k \in 1..Len(v) |-> v[k] * v[k]])

\* sharpe_ratio without its guards: 0 / 0 is NaN.
SharpeRatioUnguarded(lr) ==
  LET n == Len(lr)
      sum == Sum(lr)
      d == n * SumSquares(lr) - sum * sum IN
  IF n = 0 \/ d = 0 THEN [s |-> NaN, a |-> 1, b |-> 1]
  ELSE [s |-> sum, a |-> 1, b |-> d]

\* sharpe_ratio: mean / sqrt(variance) = sum / sqrt(n * sum of squares -
\* sum^2), as the ratio s * sqrt(a / b); the guards return 0.
SharpeRatio(lr) ==
  LET n == Len(lr)
      sum == Sum(lr)
      d == n * SumSquares(lr) - sum * sum IN
  IF n = 0 THEN [s |-> 0, a |-> 1, b |-> 1]
  ELSE IF sum = 0 THEN [s |-> 0, a |-> 1, b |-> 1]
  ELSE IF d = 0 THEN [s |-> 0, a |-> 1, b |-> 1]
  ELSE [s |-> sum, a |-> 1, b |-> d]

\* sortino_ratio: mean / sqrt(sum of squared negatives / n_neg)
\* = sum * sqrt(n_neg / (n^2 * sum of squared negatives)).
SortinoRatio(lr) ==
  LET n == Len(lr)
      sum == Sum(lr)
      negative_returns == SelectSeq(lr, LAMBDA x : x < 0)
      n_neg == Len(negative_returns)
      q == SumSquares(negative_returns) IN
  IF n = 0 THEN [s |-> 0, a |-> 1, b |-> 1]
  ELSE IF sum = 0 THEN [s |-> 0, a |-> 1, b |-> 1]
  ELSE IF n_neg = 0 THEN [s |-> 0, a |-> 1, b |-> 1]
  ELSE IF q = 0 THEN [s |-> 0, a |-> 1, b |-> 1]
  ELSE [s |-> sum, a |-> n_neg, b |-> n * n * q]

\* total_return: the last element; panics on an empty series.
TotalReturn(cum_norm) ==
  IF Len(cum_norm) = 0 THEN [panic |-> TRUE, val |-> 0]
  ELSE [panic |-> FALSE, val |-> At(cum_norm, Len(cum_norm) - 1)]

RECURSIVE FoldMin(_, _, _)
FoldMin(v, k, acc) ==
  IF k > Len(v) THEN acc ELSE FoldMin(v, k + 1, F64Min(acc, v[k]))

NoMetrics ==
  [drawdowns |-> <<>>, equity_curve |-> <<>>, max_drawdown |-> 0,
   mean_return |-> 0, sharpe_ratio |-> 0, sortino_ratio |-> 0,
   total_return |-> 0, win_rate_stats |-> NoWinRate]

\* run_evaluation_metrics.  The series fields and mean_return are rounded to
\* 3 decimals and held in thousandths; max_drawdown, the ratios and
\* total_return are rounded to 2 decimals and held in hundredths.  arr,
\* (1 + mean_return)^252 - 1, is far outside the integers and is left out.
RunEvaluationMetrics(lr, cum_norm, wr) ==
  LET dd == Drawdowns(lr)
      drawdowns == [k \in 1..Len(dd.val) |-> RoundFloat(dd.val[k], 1000)]
      equity_curve == [k \in 1..Len(cum_norm) |-> RoundFloat(cum_norm[k], 1000)]
      max_drawdown == RoundFloat(FoldMin(drawdowns, 1, NaN), 10)
      mean_return == RoundFloat(MeanReturn(lr), 1000)
      sharpe_ratio == RoundRatio(SharpeRatio(lr))
      sortino_ratio == RoundRatio(SortinoRatio(lr))
      tr == TotalReturn(cum_norm) IN
  IF dd.panic \/ tr.panic THEN [panic |-> TRUE, metrics |-> NoMetrics]
  ELSE [panic |-> FALSE,
        metrics |->
          [drawdowns |-> drawdowns, equity_curve |-> equity_curve,
           max_drawdown |-> max_drawdown, mean_return |-> mean_return,
           sharpe_ratio |-> sharpe_ratio, sortino_ratio |-> sortino_ratio,
           total_return |-> RoundFloat(tr.val, 10000), win_rate_stats |-> wr]]

\* --------------------------------------------------- Backtest::run_backtest
\* The length of `lhs op rhs` on two one-dimensional ndarray arrays of
\* lengths n1 and n2 (arr_1 + arr_2, rets_arr * sig_arr), or -1 when the
\* operator panics. Equal lengths combine elementwise; a right operand of
\* length 1 is broadcast to the left one's length; a left operand of length 1
\* is broadcast to the right one's length only by the releases of ndarray
\* that co-broadcast, the others panic; every other pair of lengths panics.
BroadcastLen(n1, n2) ==
  IF n1 = n2 THEN n1
  ELSE IF n2 = 1 THEN n1
  ELSE IF n1 = 1 /\ co_broadcast THEN n2
  ELSE -1

\* An operand as the operator reads it at the result's length n.
Broadcast(v, n) == IF Len(v) = n THEN v ELSE [k \in 1..n |-> v[1]]

\* add_vecs: the elementwise sum (of operands whose lengths combine).
AddVecs(vec_1, vec_2) ==
  LET n == BroadcastLen(Len(vec_1), Len(vec_2))
      arr_1 == Broadcast(vec_1, n)
      arr_2 == Broadcast(vec_2, n) IN
  [k \in 1..n |-> arr_1[k] + arr_2[k]]

\* construct_portfolio_returns with the sign dropped.
ConstructPortfolioReturnsNoSign(sig, lr, costs, sign, weight) ==
  LET n == BroadcastLen(Len(lr), Len(sig))
      rets_arr == Broadcast(lr, n)
      sig_arr == Broadcast(sig, n) IN
  AddVecs([k \in 1..n |-> rets_arr[k] * sig_arr[k] * weight], costs)

\* construct_portfolio_returns: log_rets * signals * sign * weight + costs.
ConstructPortfolioReturns(sig, lr, costs, sign, weight) ==
  LET n == BroadcastLen(Len(lr), Len(sig))
      rets_arr == Broadcast(lr, n)
      sig_arr == Broadcast(sig, n) IN
  AddVecs([k \in 1..n |-> rets_arr[k] * sig_arr[k] * sign * weight], costs)

\* The length of what construct_portfolio_returns returns on log returns of
\* length n_rets, a signal of length n_sig and costs of length n_costs, or -1
\* when the product or add_vecs panics.
ConstructPortfolioReturnsLen(n_sig, n_rets, n_costs) ==
  LET n == BroadcastLen(n_rets, n_sig) IN
  IF n = -1 THEN -1 ELSE BroadcastLen(n, n_costs)

\* The log_returns of run_backtest: asset 1, plus asset 2 in pairs mode.
PortfolioLogReturns(sig, rate, w1, w2, r1, r2_opt) ==
  LET costs == TradeCosts(sig, rate)
      strat_log_rets_1 == ConstructPortfolioReturns(sig, r1, costs, 1, w1) IN
  IF is_some(r2_opt)
    THEN AddVecs(strat_log_rets_1,
                 ConstructPortfolioReturns(sig, unwrap(r2_opt), costs, -1, w2))
    ELSE strat_log_rets_1

\* One of the array operations on the way to log_returns panics.
PortfolioLogReturnsPanics(sig, rate, r1, r2_opt) ==
  LET n_costs == Len(TradeCosts(sig, rate))
      n_1 == ConstructPortfolioReturnsLen(Len(sig), Len(r1), n_costs) IN
  \/ n_1 = -1
  \/ /\ is_some(r2_opt)
     /\ LET n_2 == ConstructPortfolioReturnsLen(Len(sig), Len(unwrap(r2_opt)), n_costs) IN
        n_2 = -1 \/ BroadcastLen(n_1, n_2) = -1

\* Backtest::new.
BacktestNew ==
  /\ bpc = "new"
  /\ signals' \in SeqsUpTo(Vals, MaxBacktestLen)
  /\ trading_costs' \in CostRates
  /\ weight_asset_1' \in Weights
  /\ weight_asset_2' \in Weights
  /\ bpc' = "ready"
  /\ UNCHANGED <<log_rets_1, log_rets_2_opt, log_returns, cum_norm_returns,
                 metrics, co_broadcast>>
  /\ UNCHANGED notRun

\* The body of run_backtest(log_rets_1, log_rets_2_opt) on a constructed
\* Backtest: a panic of an array operation or of the evaluation leaves no
\* Metrics behind.
RunBacktestOn(r1, r2_opt) ==
  /\ log_rets_1' = r1
  /\ log_rets_2_opt' = r2_opt
  /\ IF PortfolioLogReturnsPanics(signals, trading_costs, r1, r2_opt)
       THEN /\ log_returns' = <<>>
            /\ cum_norm_returns' = <<>>
            /\ metrics' = NoMetrics
            /\ bpc' = "panic"
       ELSE /\ log_returns' = PortfolioLogReturns(signals, trading_costs,
                                 weight_asset_1, weight_asset_2, r1, r2_opt)
            /\ LET strat_cum_log_rets == CumulativeReturns(log_returns') IN
               cum_norm_returns' = NormaliseReturns(strat_cum_log_rets)
            /\ LET win_rate_stats == WinRateStats(signals, log_returns')
                   ev == RunEvaluationMetrics(log_returns', cum_norm_returns',
                                              win_rate_stats) IN
               /\ metrics' = ev.metrics
               /\ bpc' = IF ev.panic THEN "panic" ELSE "done"
  /\ UNCHANGED co_broadcast
  /\ UNCHANGED fieldVars
  /\ UNCHANGED notRun

\* run_backtest on log returns of the signal's length, with or without a
\* second asset.
RunBacktest ==
  /\ bpc = "ready"
  /\ \E r1 \in SeqsOfLen(Rets, Len(signals)) :
     \E r2_opt \in {None} \cup {Some(r2) : r2 \in SeqsOfLen(Rets, Len(signals))} :
       RunBacktestOn(r1, r2_opt)

\* run_backtest on log returns of any length, with or without a second asset.
RunBacktestAnyLength ==
  /\ bpc = "ready"
  /\ \E r1 \in SeqsUpTo(LengthRets, MaxReturnsLen) :
     \E r2_opt \in {None} \cup {Some(r2) : r2 \in SeqsUpTo(LengthRets, MaxReturnsLen)} :
       RunBacktestOn(r1, r2_opt)

\* ======================================================== specifications
\* Each specification runs one component; the others stay idle.
SignalsIdle ==
  /\ params = [eq |-> NoPair, neq |-> NoPair, gt |-> NoPair, lt |-> NoPair,
               signal_type |-> "Long"]
  /\ series = <<>>
  /\ triggers = <<>>
  /\ factor = 0
  /\ open_signals = <<>>
  /\ is_open = FALSE
  /\ gi = 0
  /\ gpc = "idle"

ConsolidateIdle ==
  /\ signals_arr = <<>>
  /\ sigs = <<>>
  /\ cpc = "idle"

FieldsIdle ==
  /\ signals = <<>>
  /\ trading_costs = 0
  /\ weight_asset_1 = 1
  /\ weight_asset_2 = 1

CostsIdle ==
  /\ tc = <<>>
  /\ ti = 0
  /\ tpc = "idle"

RunIdle ==
  /\ log_rets_1 = <<>>
  /\ log_rets_2_opt = None
  /\ log_returns = <<>>
  /\ cum_norm_returns = <<>>
  /\ metrics = NoMetrics
  /\ co_broadcast = FALSE
  /\ bpc = "idle"

WinRateIdle ==
  /\ log_rets = <<>>
  /\ opened = 0
  /\ closed = 0
  /\ closed_profit = 0
  /\ curr_profit = 0
  /\ w_is_open = FALSE
  /\ wi = 0
  /\ win_rate = NoWinRate
  /\ wpc = "idle"

\* ---- generate_signals on every series and bundle
InitSignals ==
  /\ params \in SignalBundles
  /\ series \in SeqsUpTo(Vals, MaxSeriesLen)
  /\ triggers = <<>>
  /\ factor = 0
  /\ open_signals = <<>>
  /\ is_open = FALSE
  /\ gi = 0
  /\ gpc = "call"
  /\ ConsolidateIdle
  /\ FieldsIdle
  /\ CostsIdle
  /\ WinRateIdle
  /\ RunIdle

NextSignals ==
  \/ GenerateSignalsCall
  \/ GenerateSignalsLoop
  \/ GenerateSignalsReturn

SpecSignals == InitSignals /\ [][NextSignals]_vars

\* ---- generate_signals on short series under every threshold bundle
InitBundles ==
  /\ params \in AllBundles
  /\ series \in SeqsUpTo(Vals, MaxBundleSeriesLen)
  /\ triggers = <<>>
  /\ factor = 0
  /\ open_signals = <<>>
  /\ is_open = FALSE
  /\ gi = 0
  /\ gpc = "call"
  /\ ConsolidateIdle
  /\ FieldsIdle
  /\ CostsIdle
  /\ WinRateIdle
  /\ RunIdle

SpecBundles == InitBundles /\ [][NextSignals]_vars

\* ---- generate_signals on the series that are compared pairwise
InitCompare ==
  /\ params \in SignalBundles
  /\ series \in SeqsUpTo(Vals, MaxCompareLen)
  /\ triggers = <<>>
  /\ factor = 0
  /\ open_signals = <<>>
  /\ is_open = FALSE
  /\ gi = 0
  /\ gpc = "call"
  /\ ConsolidateIdle
  /\ FieldsIdle
  /\ CostsIdle
  /\ WinRateIdle
  /\ RunIdle

SpecCompare == InitCompare /\ [][NextSignals]_vars

\* ---- consolidate_signals on every list of streams
InitConsolidate ==
  /\ signals_arr = <<>>
  /\ sigs = <<>>
  /\ cpc = "build"
  /\ SignalsIdle
  /\ FieldsIdle
  /\ CostsIdle
  /\ WinRateIdle
  /\ RunIdle

NextConsolidate ==
  \/ PushStream
  \/ ConsolidateSignalsCall

SpecConsolidate == InitConsolidate /\ [][NextConsolidate]_vars

\* ---- trade_costs on every signal series and cost rate
InitCosts ==
  /\ signals \in SeqsUpTo(Vals, MaxSignalLen)
  /\ trading_costs \in CostRates
  /\ weight_asset_1 = 1
  /\ weight_asset_2 = 1
  /\ tc = <<>>
  /\ ti = 0
  /\ tpc = "call"
  /\ SignalsIdle
  /\ ConsolidateIdle
  /\ WinRateIdle
  /\ RunIdle

NextCosts ==
  \/ TradeCostsCall
  \/ TradeCostsLoop
  \/ TradeCostsReturn

SpecCosts == InitCosts /\ [][NextCosts]_vars

\* ---- win_rate_stats on every signal series and log returns of its length
InitWinRate ==
  /\ signals \in SeqsUpTo(Vals, MaxSignalLen)
  /\ log_rets \in SeqsOfLen(Rets, Len(signals))
  /\ trading_costs = 0
  /\ weight_asset_1 = 1
  /\ weight_asset_2 = 1
  /\ opened = 0
  /\ closed = 0
  /\ closed_profit = 0
  /\ curr_profit = 0
  /\ w_is_open = FALSE
  /\ wi = 0
  /\ win_rate = NoWinRate
  /\ wpc = "call"
  /\ SignalsIdle
  /\ ConsolidateIdle
  /\ CostsIdle
  /\ RunIdle

NextWinRate ==
  \/ WinRateStatsCall
  \/ WinRateStatsLoop
  \/ WinRateStatsReturn

SpecWinRate == InitWinRate /\ [][NextWinRate]_vars

\* ---- Backtest::new followed by run_backtest
InitBacktest ==
  /\ FieldsIdle
  /\ log_rets_1 = <<>>
  /\ log_rets_2_opt = None
  /\ log_returns = <<>>
  /\ cum_norm_returns = <<>>
  /\ metrics = NoMetrics
  /\ co_broadcast = FALSE  \* unread: the lengths agree
  /\ bpc = "new"
  /\ SignalsIdle
  /\ ConsolidateIdle
  /\ CostsIdle
  /\ WinRateIdle

NextBacktest ==
  \/ BacktestNew
  \/ RunBacktest

SpecBacktest == InitBacktest /\ [][NextBacktest]_vars

\* ---- Backtest::new, then run_backtest on returns of any length, under
\* either broadcasting rule of the array library
InitBacktestLengths ==
  /\ FieldsIdle
  /\ log_rets_1 = <<>>
  /\ log_rets_2_opt = None
  /\ log_returns = <<>>
  /\ cum_norm_returns = <<>>
  /\ metrics = NoMetrics
  /\ co_broadcast \in BOOLEAN
  /\ bpc = "new"
  /\ SignalsIdle
  /\ ConsolidateIdle
  /\ CostsIdle
  /\ WinRateIdle

NextBacktestLengths ==
  \/ BacktestNew
  \/ RunBacktestAnyLength

SpecBacktestLengths == InitBacktestLengths /\ [][NextBacktestLengths]_vars

\* ================================================================= claims
\* ---- generate_signals (SpecSignals)
DirectionFactor == IF params.signal_type = "Long" THEN 1 ELSE -1

\* Starting Flat with output[0] = 0; every output is the direction factor or 0.
C1_State ==
  gpc \in {"loop", "done"} =>
    /\ At(open_signals, 0) = 0
    /\ gi = 1 => ~is_open
    /\ factor = DirectionFactor
    /\ \A k \in 1..Len(open_signals) : open_signals[k] \in {DirectionFactor, 0}

\* One iteration at index gi: the four rows of the Flat/InPosition table,
\* driven by the trigger at gi - 1.
C1_Transition ==
  (gpc = "loop" /\ gi < Len(triggers)) =>
    LET prev == At(triggers, gi - 1) IN
    /\ Len(open_signals') = gi + 1
    /\ SubSeq(open_signals', 1, gi) = open_signals
    /\ (~is_open /\ prev = 1) => (is_open' /\ At(open_signals', gi) = DirectionFactor)
    /\ (is_open /\ prev # -1) => (is_open' /\ At(open_signals', gi) = DirectionFactor)
    /\ (is_open /\ prev = -1) => (~is_open' /\ At(open_signals', gi) = 0)
    /\ (~is_open /\ prev \in {0, -1}) => (~is_open' /\ At(open_signals', gi) = 0)

\* C1: generate_signals is the two-state Flat/InPosition machine driven by
\* the previous index's trigger: it starts Flat with output[0] = 0, and at
\* every i >= 1 (Flat, +1) opens and emits the factor, (InPosition, not -1)
\* stays and emits the factor, (InPosition, -1) closes and emits 0, (Flat,
\* 0 or -1) stays Flat and emits 0; the factor is +1 for Long, -1 for Short.
C1_SignalMachine == [](C1_State) /\ [][C1_Transition]_vars

\* A Short run that has opened, held, closed, stayed flat and opened again.
C1_Witness ==
  /\ gpc = "done"
  /\ params.signal_type = "Short"
  /\ triggers = <<1, 0, -1, -1, 1, 0>>
  /\ open_signals = <<0, -1, -1, 0, 0, -1>>

\* C2 as stated: triggers [0,+1,0,0,-1,0], Long, give [0,0,+1,+1,0,0].
C2_Original ==
  (gpc = "done" /\ params.signal_type = "Long" /\ triggers = <<0, 1, 0, 0, -1, 0>>)
    => open_signals = <<0, 0, 1, 1, 0, 0>>

\* C2 (amended): for the trigger sequence [0,+1,0,0,-1,0] and direction
\* Long the output is [0,0,+1,+1,+1,0]: the close trigger at index 4 ends
\* the position at index 5, one step later.
C2_HysteresisExample ==
  (gpc = "done" /\ params.signal_type = "Long" /\ triggers = <<0, 1, 0, 0, -1, 0>>)
    => open_signals = <<0, 0, 1, 1, 1, 0>>

C2_Witness ==
  /\ gpc = "done"
  /\ params.signal_type = "Long"
  /\ triggers = <<0, 1, 0, 0, -1, 0>>
  /\ Len(open_signals) = 6

\* C10: for every input series, the empty one included, the returned signal
\* series has the length of the input and of the trigger series; an empty
\* input gives an empty signal series.
C10_SignalLength ==
  gpc = "done" =>
    /\ Len(triggers) = Len(series)
    /\ Len(open_signals) = Len(series)
    /\ (series = <<>> => open_signals = <<>>)

\* ---- generate_signals against a second trigger series (SpecCompare)
\* The trigger series t2 agrees with this run's at every index below i.
AgreeBelow(t2, i) == \A j \in 0..(i - 1) : At(t2, j) = At(triggers, j)

\* A position is held at index i and was not at i - 1.
NewlyHeld(i) ==
  /\ At(open_signals, i) # 0
  /\ i > 0 => At(open_signals, i - 1) = 0

\* C17: no look-ahead.  Two trigger series of the same length that agree at
\* all indices strictly below i give the same signal at index i; so the
\* trigger at the last index influences no output; and a position is never
\* held at the index at which its opening trigger fires, only from the next
\* one on.
C17_NoLookAhead ==
  gpc = "done" =>
    /\ \A t2 \in SeqsOfLen(Vals, Len(triggers)) :
         LET out2 == GenerateSignalsOn(t2, factor) IN
         \A i \in 0..(Len(triggers) - 1) :
           AgreeBelow(t2, i) => At(out2, i) = At(open_signals, i)
    /\ \A v \in Vals :
         Len(triggers) > 0 =>
           GenerateSignalsOn([triggers EXCEPT ![Len(triggers)] = v], factor)
             = open_signals
    /\ \A i \in 0..(Len(triggers) - 1) :
         NewlyHeld(i) => (i > 0 /\ At(triggers, i - 1) = 1)

\* The position opened by the trigger at index 1 is held from index 2, and
\* the close trigger at the last index changes nothing.
C17_Witness ==
  /\ gpc = "done"
  /\ params.signal_type = "Long"
  /\ triggers = <<0, 1, 0, -1>>
  /\ open_signals = <<0, 0, 1, 1>>

\* ---- generate_triggers (SpecBundles)
Kinds == {"eq", "neq", "gt", "lt"}

\* Value x meets threshold t under the comparison of the given kind.
Matches(kind, x, t) ==
  CASE kind = "eq" -> x = t
    [] kind = "neq" -> x # t
    [] kind = "gt" -> x >= t
    [] kind = "lt" -> x <= t

\* At least one threshold that is set in the slot (1 open, 2 close) matches x.
AnyMatch(slot, x) ==
  \E kind \in Kinds :
    /\ is_some(params[kind][slot])
    /\ Matches(kind, x, unwrap(params[kind][slot]))

\* C14: for every input value x and every threshold bundle the trigger is
\* +1 exactly when at least one set open threshold matches (eq: x = t, neq:
\* x != t, gt: x >= t, lt: x <= t); otherwise -1 exactly when at least one
\* set close threshold matches; otherwise 0.  Open takes precedence over
\* close, unset thresholds never match, every element gets exactly one of
\* +1, -1, 0, and the trigger series has the input's length.
C14_TriggerRule ==
  gpc \in {"loop", "done"} =>
    /\ Len(triggers) = Len(series)
    /\ \A k \in 1..Len(series) :
         /\ triggers[k] \in {1, -1, 0}
         /\ triggers[k] = 1 <=> AnyMatch(1, series[k])
         /\ triggers[k] = -1 <=> (~AnyMatch(1, series[k]) /\ AnyMatch(2, series[k]))
         /\ triggers[k] = 0 <=> (~AnyMatch(1, series[k]) /\ ~AnyMatch(2, series[k]))

\* The value 0 meets the close threshold eq 0 and, on its boundary, the open
\* threshold lt 0: open wins; the value 1 meets no threshold that is set.
C14_Witness ==
  /\ gpc = "done"
  /\ params.eq = <<None, Some(0)>>
  /\ params.lt = <<Some(0), None>>
  /\ params.neq = NoPair
  /\ params.gt = NoPair
  /\ series = <<0, 1>>
  /\ triggers = <<1, 0>>

\* ---- consolidate_signals (SpecConsolidate)
EqualLengths(arr) == \A a, b \in 1..Len(arr) : Len(arr[a]) = Len(arr[b])

\* The value of the earliest stream that is nonzero at position k, else 0.
FirstNonzero(arr, k) ==
  LET nz == {a \in 1..Len(arr) : arr[a][k] # 0} IN
  IF nz = {} THEN 0
  ELSE arr[CHOOSE a \in nz : \A b \in nz : a <= b][k]

\* C3: for every non-empty list of equal-length streams over {-1,0,+1},
\* consolidate_signals returns one value per index, and the value at k is
\* that of the earliest stream in list order that is nonzero at k, or 0 when
\* all streams are 0 at k.
C3_FirstNonzeroWins ==
  (cpc # "build" /\ Len(signals_arr) > 0 /\ EqualLengths(signals_arr)) =>
    /\ cpc = "done"
    /\ Len(sigs) = Len(signals_arr[1])
    /\ \A k \in 1..Len(sigs) : sigs[k] = FirstNonzero(signals_arr, k)

\* Two streams that are nonzero together with different signs, and a
\* position only the second stream fills.
C3_Witness ==
  /\ cpc = "done"
  /\ signals_arr = << <<1, 0, 0>>, <<-1, -1, 0>> >>
  /\ sigs = <<1, -1, 0>>

\* C4 as stated: [[0,+1,0],[0,0,-1]] consolidates to [0,+1,0].
C4_Original ==
  (cpc # "build" /\ signals_arr = << <<0, 1, 0>>, <<0, 0, -1>> >>)
    => (cpc = "done" /\ sigs = <<0, 1, 0>>)

\* C4 (amended): consolidating [[0,+1,0],[0,0,-1]] yields [0,+1,-1]: at the
\* last index the first stream is 0, so the second stream's -1 is emitted.
C4_PrecedenceExample ==
  (cpc # "build" /\ signals_arr = << <<0, 1, 0>>, <<0, 0, -1>> >>)
    => (cpc = "done" /\ sigs = <<0, 1, -1>>)

C4_Witness ==
  /\ cpc = "done"
  /\ signals_arr = << <<0, 1, 0>>, <<0, 0, -1>> >>
  /\ Len(sigs) = 3

\* C11: consolidate_signals fails and produces no consolidated signal
\* whenever the list of streams is empty or any two streams differ in
\* length, whichever stream is the shorter and whatever the values are.
C11_LengthPrecondition ==
  (cpc # "build" /\ (Len(signals_arr) = 0 \/ ~EqualLengths(signals_arr))) =>
    cpc = "panic"

\* ---- trade_costs (SpecCosts)
\* Position k (1-based) has a neighbour holding a different signal.
AdjacentToTransition(k) ==
  \/ k > 1 /\ signals[k - 1] # signals[k]
  \/ k < Len(signals) /\ signals[k + 1] # signals[k]

\* The 0-based indices the pair (i - 1, i) charges.
ChargedAt(i) ==
  LET val == At(signals, i)
      prev == At(signals, i - 1) IN
  IF val = 0 /\ prev # 0 THEN {i - 1}
  ELSE IF val # 0 /\ prev = 0 THEN {i}
  ELSE IF val # 0 /\ prev # 0 /\ val # prev THEN {i - 1, i}
  ELSE {}

C5_State ==
  tpc \in {"loop", "done"} =>
    /\ Len(tc) = Len(signals)
    /\ ti = 1 => \A k \in 1..Len(tc) : tc[k] = 0
    /\ \A k \in 1..Len(tc) : tc[k] \in {0, -trading_costs}
    /\ \A k \in 1..Len(tc) : tc[k] # 0 => AdjacentToTransition(k)

C5_Write ==
  (tpc = "loop" /\ ti < Len(signals)) =>
    /\ Len(tc') = Len(tc)
    /\ \A k \in 0..(Len(tc) - 1) :
         At(tc', k) = IF k \in ChargedAt(ti) THEN -trading_costs ELSE At(tc, k)

\* C5: trade_costs gives a cost series of the signal's length that starts
\* all zero and is written pair by pair in increasing i: a close charges
\* -cost_rate at i-1, an open at i, a reversal at both, anything else writes
\* nothing; a write overwrites, so every entry is 0 or -cost_rate and is
\* nonzero only next to a transition.
C5_TradeCosts == [](C5_State) /\ [][C5_Write]_vars

\* Open at 1, reversal at 2 (which writes index 1 again), close at 3.
C5_Witness ==
  /\ tpc = "done"
  /\ signals = <<0, 1, -1, 0>>
  /\ trading_costs = 1
  /\ tc = <<0, -1, -1, 0>>

\* ---- win_rate_stats (SpecWinRate)
\* The 0-based index at which the trade held at index i began: the start of
\* the run of one nonzero signal value that reaches i.
TradeStart(i) ==
  CHOOSE a \in 0..i :
    /\ \A j \in a..i : At(signals, j) = At(signals, i)
    /\ a > 0 => At(signals, a - 1) # At(signals, i)

\* The returns of the trade held at index i, from its open up to i.
TradeSum(i) == SumRange(log_rets, TradeStart(i), i)

C7_Step ==
  (wpc = "loop" /\ wi < Len(signals) /\ At(signals, 0) = 0) =>
    LET val == At(signals, wi)
        prev == At(signals, wi - 1)
        openEvent == val # 0 /\ prev # val
        closeEvent == prev # 0 /\ prev # val IN
    /\ opened' = IF openEvent THEN opened + 1 ELSE opened
    /\ (closeEvent /\ TradeStart(wi - 1) > 0) =>
         /\ closed' = closed + 1
         /\ closed_profit' =
              IF TradeSum(wi - 1) > 0 THEN closed_profit + 1 ELSE closed_profit

\* C7: every open event (a reversal is a close followed by an open)
\* increments opened and starts a fresh trade profit, so at each close event
\* closed_profit is incremented exactly when the returns accumulated since
\* that same trade was opened sum to a positive number; an earlier trade's
\* returns never enter a later trade's profit test.  Stated here for the
\* signal series that start flat, as every generated signal does.
C7_WinRateReplay == [][C7_Step]_vars

\* The signal is one trade: flat at index 0, one run of a single nonzero
\* value, flat again up to the end.
SingleTrade ==
  \E a, b \in 1..(Len(signals) - 1) :
    /\ a < b
    /\ \A k \in 0..(Len(signals) - 1) :
         IF a <= k /\ k < b THEN At(signals, k) = At(signals, a) /\ At(signals, a) # 0
         ELSE At(signals, k) = 0

\* The portfolio returns summed over the indices at which a position is held.
HeldSum ==
  Sum([k \in 1..Len(signals) |-> IF signals[k] # 0 THEN log_rets[k] ELSE 0])

\* C15: for a signal that starts at 0 and holds exactly one open followed
\* later by exactly one close, with no reversal: if the portfolio returns
\* over the held indices sum to more than 0 then opened = 1, closed = 1,
\* closed_profit = 1 and win_rate = 1.0; otherwise closed_profit = 0 and
\* win_rate = 0.
C15_SingleTrade ==
  (wpc = "done" /\ SingleTrade) =>
    IF HeldSum > 0
      THEN win_rate = [win_rate |-> 100, opened |-> 1, closed |-> 1,
                       closed_profit |-> 1]
      ELSE win_rate.closed_profit = 0 /\ win_rate.win_rate = 0

\* A trade held over two indices whose returns sum to a profit; the losses
\* at the flat indices stay out of the sum.
C15_Witness ==
  /\ wpc = "done"
  /\ signals = <<0, 1, 1, 0>>
  /\ log_rets = <<-1, 1, 0, -1>>
  /\ win_rate.closed_profit = 1

\* C16: for a signal whose first element is 0, after every prefix of the
\* loop closed <= opened <= closed + 1 and closed_profit <= closed; a
\* position still open at the end of the series is counted in opened and
\* not in closed; the win rate returned lies in [0, 1].
C16_CounterInvariant ==
  (wpc \in {"loop", "done"} /\ Len(signals) > 0 /\ At(signals, 0) = 0) =>
    /\ closed <= opened
    /\ opened <= closed + 1
    /\ closed_profit <= closed
    /\ wpc = "done" =>
         /\ win_rate.opened = opened
         /\ win_rate.closed = closed
         /\ win_rate.closed_profit = closed_profit
         /\ win_rate.win_rate \in 0..100
         /\ At(signals, Len(signals) - 1) # 0 => opened = closed + 1

\* Two reversals and a position still open at the end.
C16_Witness ==
  /\ wpc = "done"
  /\ signals = <<0, 1, -1, 1>>
  /\ opened = 3
  /\ closed = 2

\* A signal that starts inside a position has its close counted although no
\* open was.
C16_UnmatchedClose ==
  /\ wpc = "done"
  /\ Len(signals) > 0
  /\ At(signals, 0) # 0
  /\ closed > opened

\* ---- run_backtest (SpecBacktest)
Returned == bpc \in {"done", "panic"}
PairsMode == is_some(log_rets_2_opt)

\* The contributions of the two assets at position k (1-based).
Asset1At(k) == log_rets_1[k] * signals[k] * weight_asset_1
Asset2At(k) == unwrap(log_rets_2_opt)[k] * signals[k] * weight_asset_2
CostAt(k) == TradeCosts(signals, trading_costs)[k]

\* C6 as stated: the trading-cost entry is counted once in both modes.
C6_Original ==
  Returned =>
    /\ Len(log_returns) = Len(signals)
    /\ \A k \in 1..Len(log_returns) :
         log_returns[k] = IF PairsMode
                            THEN Asset1At(k) - Asset2At(k) + CostAt(k)
                            ELSE Asset1At(k) + CostAt(k)

\* C6 (amended): in pairs mode the portfolio log return at i is
\* log_rets_1[i]*signal[i]*weight_1 - log_rets_2[i]*signal[i]*weight_2
\* + 2*cost[i], the cost entry being added once in each asset's leg; in
\* single-asset mode it is log_rets_1[i]*signal[i]*weight_1 + cost[i].
C6_PortfolioReturns ==
  Returned =>
    /\ Len(log_returns) = Len(signals)
    /\ \A k \in 1..Len(log_returns) :
         log_returns[k] = IF PairsMode
                            THEN Asset1At(k) - Asset2At(k) + 2 * CostAt(k)
                            ELSE Asset1At(k) + CostAt(k)

\* A pairs run that charges a cost where both assets contribute.
C6_Witness ==
  /\ bpc = "done"
  /\ PairsMode
  /\ \E k \in 1..Len(signals) :
       /\ CostAt(k) # 0
       /\ Asset1At(k) # 0
       /\ Asset2At(k) # 0

\* The drawdown of the equity curve at position k (1-based): minus the gap
\* between the curve's maximum over 1..k and its value at k, in units of 1e-6.
EquityDrawdown(k) ==
  LET high == CHOOSE m \in {cum_norm_returns[j] : j \in 1..k} :
                \A j \in 1..k : cum_norm_returns[j] <= m IN
  -(high - cum_norm_returns[k])

\* C8: the drawdown series of the Metrics record is taken over the
\* normalised equity curve: drawdown[i] = -(max of the curve over 0..i minus
\* the curve at i), rounded to 3 decimals; so it is 0 wherever the curve is
\* at a running high.
C8_DrawdownOfEquity ==
  bpc = "done" =>
    /\ Len(metrics.drawdowns) = Len(cum_norm_returns)
    /\ \A k \in 1..Len(metrics.drawdowns) :
         metrics.drawdowns[k] = RoundFloat(EquityDrawdown(k), 1000)

\* C9: for every non-empty all-zero portfolio log-return series the
\* evaluation completes and yields sharpe_ratio = 0, sortino_ratio = 0,
\* mean_return = 0 and max_drawdown = 0.
C9_DegenerateGuard ==
  (Returned /\ Len(log_returns) > 0 /\ \A k \in 1..Len(log_returns) : log_returns[k] = 0) =>
    /\ bpc = "done"
    /\ metrics.sharpe_ratio = 0
    /\ metrics.sortino_ratio = 0
    /\ metrics.mean_return = 0
    /\ metrics.max_drawdown = 0

\* A position is held on assets that do not move, with no cost: the
\* portfolio log returns are all zero and the evaluation has returned.
C9_Witness ==
  /\ bpc = "done"
  /\ signals = <<1, 1>>
  /\ log_returns = <<0, 0>>

\* C13: on an empty portfolio log-return series (empty signal and empty
\* asset returns) the evaluation fails on the metrics that need at least one
\* element, drawdowns and total return, and run_backtest returns no Metrics
\* record, partial or complete.
C13_EmptySeriesFails ==
  (/\ Returned
   /\ signals = <<>>
   /\ log_rets_1 = <<>>
   /\ PairsMode => unwrap(log_rets_2_opt) = <<>>) =>
    /\ log_returns = <<>>
    /\ Drawdowns(log_returns).panic
    /\ TotalReturn(cum_norm_returns).panic
    /\ bpc = "panic"
    /\ metrics = NoMetrics

\* run_backtest has been called in pairs mode on an empty signal.
C13_Witness ==
  /\ bpc = "panic"
  /\ signals = <<>>
  /\ log_rets_1 = <<>>
  /\ log_rets_2_opt = Some(<<>>)

\* ---- run_backtest on returns of any length (SpecBacktestLengths)
\* C12: run_backtest fails and returns no Metrics whenever the length of an
\* asset log-return series (asset 1, or asset 2 in pairs mode) differs from
\* the signal's length; a mismatched series is never silently coerced.
C12_ReturnsLength ==
  (Returned /\ (\/ Len(log_rets_1) # Len(signals)
                \/ PairsMode /\ Len(unwrap(log_rets_2_opt)) # Len(signals))) =>
    (bpc = "panic" /\ metrics = NoMetrics)

====
